---- MODULE Spec2Model ----
(***************************************************************************)
(* A model of price-ec2: the Cost algebra, the catalog lookups and the     *)
(* per-resource cost aggregation.                                          *)
(*                                                                         *)
(* Two revisions of the program are modelled.  Definitions without suffix  *)
(* follow src/price_ec2.py (lookups through the pricing API,               *)
(* fetch_pricing); definitions ending in _v1, and _storage_costs with the  *)
(* offer files it reads, follow src/price-ec2.py (lookups in the           *)
(* per-region offer files, Offers, with the region fallback of             *)
(* DBInstance._storage_costs).                                             *)
(*                                                                         *)
(* Strings are TLA+ strings (str.lower, startswith and slicing are         *)
(* computed character by character).  A float is an exact rational         *)
(* <<numerator, denominator>> in lowest terms; <<0, 0>> is NaN.  Rounding  *)
(* of IEEE doubles is not modelled.                                        *)
(***************************************************************************)
EXTENDS Integers, Sequences, FiniteSets, TLC

VARIABLES catalog, offers, inst, memo, lru, ret, instances, memos

vars == <<catalog, offers, inst, memo, lru, ret, instances, memos>>

-----------------------------------------------------------------------------
(* Bounds of the model.                                                    *)

MaxLen == 2

MaxPath == 2

MaxProducts == 3

MaxVolumes == 2

-----------------------------------------------------------------------------
(* Outcomes of a call: a returned value or a raised exception.             *)

Ok(v) == [ok |-> TRUE, val |-> v]

Raise(e) == [ok |-> FALSE, exc |-> e]

(* F(v), with v computed once: a statement's value bound to a local name *)
Bind(v, F(_)) == CHOOSE r \in {F(x) : x \in {v}} : TRUE

SeqsUpTo(S, n) == UNION {[1..k -> S] : k \in 0..n}

NoInst == [kind |-> "none"]

NoMemo == [instance_costs |-> Raise("unset"), storage_costs |-> Raise("unset")]

-----------------------------------------------------------------------------
(* Strings.                                                                *)

lower_char(c) ==
  CASE c = "A" -> "a" [] c = "B" -> "b" [] c = "C" -> "c" [] c = "D" -> "d"
    [] c = "E" -> "e" [] c = "F" -> "f" [] c = "G" -> "g" [] c = "H" -> "h"
    [] c = "I" -> "i" [] c = "J" -> "j" [] c = "K" -> "k" [] c = "L" -> "l"
    [] c = "M" -> "m" [] c = "N" -> "n" [] c = "O" -> "o" [] c = "P" -> "p"
    [] c = "Q" -> "q" [] c = "R" -> "r" [] c = "S" -> "s" [] c = "T" -> "t"
    [] c = "U" -> "u" [] c = "V" -> "v" [] c = "W" -> "w" [] c = "X" -> "x"
    [] c = "Y" -> "y" [] c = "Z" -> "z" [] OTHER -> c

RECURSIVE lower(_)
lower(s) ==
  IF s = "" THEN ""
  ELSE lower_char(SubSeq(s, 1, 1)) \o lower(SubSeq(s, 2, Len(s)))

startswith(s, prefix) ==
  Len(s) >= Len(prefix) /\ SubSeq(s, 1, Len(prefix)) = prefix

(* s[n:] *)
slice_from(s, n) == IF n >= Len(s) THEN "" ELSE SubSeq(s, n + 1, Len(s))

(* s[:-1] *)
slice_drop_last(s) == IF Len(s) <= 1 THEN "" ELSE SubSeq(s, 1, Len(s) - 1)

-----------------------------------------------------------------------------
(* Floats, as exact rationals.                                             *)

NaN == <<0, 0>>

isnan(x) == x[2] = 0

RECURSIVE GCD(_, _)
GCD(a, b) == IF b = 0 THEN a ELSE GCD(b, a % b)

Abs(n) == IF n < 0 THEN -n ELSE n

Rat(n, d) ==
  IF d = 0 THEN NaN
  ELSE LET g == GCD(Abs(n), Abs(d))
           s == IF d < 0 THEN -1 ELSE 1
       IN <<s * (n \div g), s * (d \div g)>>

fadd(x, y) ==
  IF isnan(x) \/ isnan(y) THEN NaN
  ELSE Rat(x[1] * y[2] + y[1] * x[2], x[2] * y[2])

fmul(x, y) ==
  IF isnan(x) \/ isnan(y) THEN NaN ELSE Rat(x[1] * y[1], x[2] * y[2])

fdiv(x, y) ==
  IF isnan(x) \/ isnan(y) THEN NaN ELSE Rat(x[1] * y[2], x[2] * y[1])

Int2F(n) == <<n, 1>>

digit(c) ==
  CASE c = "0" -> 0 [] c = "1" -> 1 [] c = "2" -> 2 [] c = "3" -> 3
    [] c = "4" -> 4 [] c = "5" -> 5 [] c = "6" -> 6 [] c = "7" -> 7
    [] c = "8" -> 8 [] c = "9" -> 9 [] OTHER -> -1

RECURSIVE digits(_, _)
digits(s, acc) ==
  IF s = "" THEN acc
  ELSE digits(SubSeq(s, 2, Len(s)), 10 * acc + digit(SubSeq(s, 1, 1)))

RECURSIVE find_dot(_, _)
find_dot(s, i) ==
  IF i > Len(s) THEN 0
  ELSE IF SubSeq(s, i, i) = "." THEN i ELSE find_dot(s, i + 1)

RECURSIVE pow10(_)
pow10(k) == IF k = 0 THEN 1 ELSE 10 * pow10(k - 1)

(* float(s) of a decimal numeral "ddd" or "ddd.ddd", or of "nan" *)
float(s) ==
  IF lower(s) = "nan" THEN NaN
  ELSE LET d == find_dot(s, 1)
           ip == IF d = 0 THEN s ELSE SubSeq(s, 1, d - 1)
           fp == IF d = 0 THEN "" ELSE slice_from(s, d)
       IN Rat(digits(ip, 0) * pow10(Len(fp)) + digits(fp, 0), pow10(Len(fp)))

-----------------------------------------------------------------------------
(* class Cost.                                                             *)

_factors == [hr |-> 1, hrs |-> 1, hours |-> 1, day |-> 24, mo |-> 24 * 30, yr |-> 24 * 365]

(* Cost.__init__; dollars is already a float here (float(x) of a float is  *)
(* x), a catalog price string goes through float() at the call.            *)
Cost(dollars, per) == [dollars |-> dollars, per |-> lower(per)]

(* the ratio of the two factors taken the wrong way round *)
_convert_inverted(self, to) ==
  LET t == lower(to) IN
  IF self.per = t THEN Ok(self)
  ELSE IF t \notin DOMAIN _factors \/ self.per \notin DOMAIN _factors
       THEN Raise("KeyError")
       ELSE Ok(Cost(fmul(fdiv(Int2F(_factors[self.per]), Int2F(_factors[t])), self.dollars), t))

_convert(self, to) ==
  LET t == lower(to) IN
  IF self.per = t THEN Ok(self)
  ELSE IF t \notin DOMAIN _factors \/ self.per \notin DOMAIN _factors
       THEN Raise("KeyError")
       ELSE Ok(Cost(fmul(fdiv(Int2F(_factors[t]), Int2F(_factors[self.per])), self.dollars), t))

per_hour(self) == _convert(self, "Hrs")

(* the mutant of per_day: the Cost is relabelled per day, not converted *)
per_day_relabel(self) == Ok(Cost(self.dollars, "Day"))

per_day(self) == _convert(self, "Day")

per_month(self) == _convert(self, "Mo")

(* the factor is dropped *)
__mul___unscaled(self, other) == self

__mul__(self, other) == Cost(fmul(self.dollars, other), self.per)

(* the period check left out *)
__add___unchecked(self, other) ==
  Ok(Cost(fadd(self.dollars, other.dollars), self.per))

__add__(self, other) ==
  IF self.per # other.per THEN Raise("Exception")
  ELSE Ok(Cost(fadd(self.dollars, other.dollars), self.per))

(* the loop "for c in costs[1:]: total += c" from position i on *)
RECURSIVE just_one_loop(_, _, _)
just_one_loop(total, costs, i) ==
  IF i > Len(costs) THEN Ok(total)
  ELSE Bind(__add__(total, costs[i]),
            LAMBDA s : IF s.ok THEN just_one_loop(s.val, costs, i + 1) ELSE s)

(* only a list of exactly one Cost is accepted *)
just_one_single(costs, per) ==
  IF Len(costs) # 1 THEN Ok(Cost(NaN, per)) ELSE Ok(costs[1])

just_one(costs, per) ==
  IF Len(costs) < 1 THEN Ok(Cost(NaN, per))
  ELSE just_one_loop(costs[1], costs, 2)

just_one_v1(costs, per) ==
  IF Len(costs) # 1 THEN Ok(Cost(NaN, per)) ELSE Ok(costs[1])

-----------------------------------------------------------------------------
(* Resources (src/price_ec2.py).  A resource is a record; kind names its   *)
(* class.  None is Python's None (a size or IOPS count that was never set). *)

None == <<>>

region_usagetype ==
  [r \in {"us-east-1", "us-east-2", "us-west-2", "eu-west-1", "eu-west-2", "ca-central-1"} |->
     CASE r = "us-east-1" -> ""
       [] r = "us-east-2" -> "USE2-"
       [] r = "us-west-2" -> "USW2-"
       [] r = "eu-west-1" -> "EU-"
       [] r = "eu-west-2" -> "EUW2-"
       [] r = "ca-central-1" -> "CAN1-"]

(* Instance.region (az[:-1]), overridden by CacheInstance and FargateInstance *)
region(self) ==
  IF self.kind \in {"CacheInstance", "FargateInstance"} THEN self._region
  ELSE slice_drop_last(self.az)

(* the mutant of running: no class overrides Instance.running *)
running_always(self) == TRUE

(* Instance.running, overridden by EC2Instance alone *)
running(self) ==
  IF self.kind = "EC2Instance" THEN self.state = "running" ELSE TRUE

RECURSIVE sum_sizes(_, _)
sum_sizes(volumes, i) ==
  IF i = 0 THEN Int2F(0) ELSE fadd(sum_sizes(volumes, i - 1), volumes[i].size)

total_storage(self) ==
  CASE self.kind = "EC2Instance" -> sum_sizes(self.volumes, Len(self.volumes))
    [] self.kind = "DBInstance" -> self.size
    [] OTHER -> Int2F(0)

database_engine(self) ==
  IF self.engine = "postgres" THEN "PostgreSQL"
  ELSE IF self.engine = "mysql" THEN "MySQL"
  ELSE self.engine

-----------------------------------------------------------------------------
(* The pricing API.  catalog is the list of products the service holds;    *)
(* each is the parsed JSON of one PriceList entry:                         *)
(*   [service, product |-> [attributes], terms |-> [OnDemand |-> <<term>>]] *)
(* with term = [priceDimensions |-> <<[unit, pricePerUnit |-> [USD]]>>];   *)
(* the JSON objects that the code walks with .values() are sequences, in   *)
(* the order of the document.  get_products answers a TERM_MATCH filter    *)
(* with the products whose attribute of that name has exactly that value.  *)

(* the attribute a filter field names: the code writes the usage type      *)
(* field 'usageType' for AmazonEC2 and 'usagetype' for AmazonRDS, and the  *)
(* product documents name the attribute 'usagetype'                        *)
field(k) == IF k = "usageType" THEN "usagetype" ELSE k

matches(p, filters) ==
  \A k \in DOMAIN filters :
    /\ field(k) \in DOMAIN p.product.attributes
    /\ p.product.attributes[field(k)] = filters[k]

get_products(service, filters) ==
  SelectSeq(catalog, LAMBDA p : p.service = service /\ matches(p, filters))

(* the check that exactly one product matched, weakened to "at least one" *)
fetch_pricing_first(cache, service, filters) ==
  LET prices == get_products(service, filters) IN
  IF Len(prices) < 1 THEN [out |-> Raise("Exception"), lru |-> cache]
  ELSE [out |-> Ok(prices[1]), lru |-> cache]

(* the cache keyed by the service alone *)
fetch_pricing_by_service(cache, service, filters) ==
  LET hit == {e \in cache : e.service = service} IN
  IF hit # {} THEN [out |-> Ok((CHOOSE e \in hit : TRUE).value), lru |-> cache]
  ELSE Bind(get_products(service, filters),
            LAMBDA prices :
              IF Len(prices) # 1 THEN [out |-> Raise("Exception"), lru |-> cache]
              ELSE [out |-> Ok(prices[1]),
                    lru |-> cache \cup {[service |-> service, filters |-> filters,
                                          value |-> prices[1]]}])

(* fetch_pricing and fetch_pricing_ under lru_cache: cache is the cache    *)
(* before the call, lru the cache after it.  The key is the service and    *)
(* the filters (as a sorted tuple of pairs in the code: equal exactly when *)
(* the dicts are equal).  An exception is not cached.                      *)
fetch_pricing(cache, service, filters) ==
  LET hit == {e \in cache : e.service = service /\ e.filters = filters} IN
  IF hit # {} THEN [out |-> Ok((CHOOSE e \in hit : TRUE).value), lru |-> cache]
  ELSE Bind(get_products(service, filters),
            LAMBDA prices :
              IF Len(prices) # 1 THEN [out |-> Raise("Exception"), lru |-> cache]
              ELSE [out |-> Ok(prices[1]),
                    lru |-> cache \cup {[service |-> service, filters |-> filters,
                                          value |-> prices[1]]}])

(* for dimension in term['priceDimensions'].values(): yield Cost(...) *)
term_dimensions(term) ==
  [j \in 1..Len(term.priceDimensions) |->
     Cost(float(term.priceDimensions[j].pricePerUnit.USD), term.priceDimensions[j].unit)]

RECURSIVE yield_terms(_, _)
yield_terms(terms, i) ==
  IF i = 0 THEN <<>> ELSE yield_terms(terms, i - 1) \o term_dimensions(terms[i])

(* for term in pricing['terms']['OnDemand'].values(): for dimension ...    *)
yield_dimensions(pricing) ==
  yield_terms(pricing.terms.OnDemand, Len(pricing.terms.OnDemand))

(* a lookup followed by the walk over its terms *)
priced(f) ==
  Bind(f, LAMBDA g :
            IF g.out.ok THEN [out |-> Ok(yield_dimensions(g.out.val)), lru |-> g.lru]
            ELSE g)

EC2Instance_unit_price(self, cache) ==
  IF region(self) \notin DOMAIN region_usagetype
  THEN [out |-> Raise("KeyError"), lru |-> cache]
  ELSE LET search_type ==
             IF self.type = "m1.small"
             THEN region_usagetype[region(self)] \o "BoxUsage"
             ELSE region_usagetype[region(self)] \o "BoxUsage:" \o self.type
       IN priced(fetch_pricing(cache, "AmazonEC2",
                   [regionCode |-> region(self), usageType |-> search_type,
                    operatingSystem |-> self.platform, preInstalledSw |-> "NA"]))

DBInstance_unit_price(self, cache) ==
  LET deployment_option == IF self.multi_az THEN "Multi-AZ" ELSE "Single-AZ" IN
  priced(fetch_pricing(cache, "AmazonRDS",
           [regionCode |-> region(self), instanceType |-> self.type,
            databaseEngine |-> database_engine(self),
            deploymentOption |-> deployment_option]))

CacheInstance_unit_price(self, cache) ==
  IF region(self) \notin DOMAIN region_usagetype
  THEN [out |-> Raise("KeyError"), lru |-> cache]
  ELSE priced(fetch_pricing(cache, "AmazonElastiCache",
                [regionCode |-> region(self),
                 usagetype |-> region_usagetype[region(self)] \o "NodeUsage:" \o self.type,
                 cacheEngine |-> self.engine]))

(* the Costs cs, each multiplied by the factor x *)
scaled(cs, x) == [j \in 1..Len(cs) |-> __mul__(cs[j], x)]

FargateInstance_unit_price(self, cache) ==
  LET cpu_usagetype == [x86_64 |-> "Fargate-vCPU-Hours:perCPU",
                        ARM64 |-> "Fargate-ARM-vCPU-Hours:perCPU"]
      memory_usagetype == [x86_64 |-> "Fargate-GB-Hours", ARM64 |-> "Fargate-ARM-GB-Hours"]
  IN IF region(self) \notin DOMAIN region_usagetype \/ self.arch \notin DOMAIN cpu_usagetype
     THEN [out |-> Raise("KeyError"), lru |-> cache]
     ELSE Bind(priced(fetch_pricing(cache, "AmazonECS",
                        [regionCode |-> region(self),
                         usageType |-> region_usagetype[region(self)]
                                         \o cpu_usagetype[self.arch]])),
               LAMBDA cpu_pricing :
                 IF ~cpu_pricing.out.ok THEN cpu_pricing
                 ELSE Bind(priced(fetch_pricing(cpu_pricing.lru, "AmazonECS",
                                    [regionCode |-> region(self),
                                     usageType |-> region_usagetype[region(self)]
                                                     \o memory_usagetype[self.arch]])),
                           LAMBDA memory_pricing :
                             IF ~memory_pricing.out.ok THEN memory_pricing
                             ELSE [out |-> Ok(scaled(cpu_pricing.out.val, self.cpu) \o
                                              scaled(memory_pricing.out.val,
                                                     fdiv(self.memory, Int2F(1024)))),
                                   lru |-> memory_pricing.lru]))

unit_price(self, cache) ==
  CASE self.kind = "EC2Instance" -> EC2Instance_unit_price(self, cache)
    [] self.kind = "DBInstance" -> DBInstance_unit_price(self, cache)
    [] self.kind = "FargateInstance" -> FargateInstance_unit_price(self, cache)
    [] self.kind = "CacheInstance" -> CacheInstance_unit_price(self, cache)

-----------------------------------------------------------------------------
(* Storage costs.  costs = defaultdict(float) is a sequence of             *)
(* [key, value] entries in insertion order.                                *)

(* costs[k] += x *)
dict_add(costs, k, x) ==
  IF \E i \in 1..Len(costs) : costs[i].key = k
  THEN [i \in 1..Len(costs) |->
          IF costs[i].key = k THEN [key |-> k, value |-> fadd(costs[i].value, x)]
          ELSE costs[i]]
  ELSE Append(costs, [key |-> k, value |-> fadd(Int2F(0), x)])

(* the mutant of expand: the gb- rate is not multiplied by the size *)
expand_unscaled(costs, c, size, iops) ==
  IF startswith(c.per, "gb-") THEN Ok(dict_add(costs, slice_from(c.per, 3), c.dollars))
  ELSE IF startswith(c.per, "iops-")
       THEN IF iops = None THEN Raise("TypeError")
            ELSE Ok(dict_add(costs, slice_from(c.per, 5), fmul(c.dollars, iops)))
       ELSE Ok(dict_add(costs, c.per, c.dollars))

(* the body of the loop over the dimensions: one Cost c folded into costs  *)
expand(costs, c, size, iops) ==
  IF startswith(c.per, "gb-")
  THEN IF size = None THEN Raise("TypeError")
       ELSE Ok(dict_add(costs, slice_from(c.per, 3), fmul(c.dollars, size)))
  ELSE IF startswith(c.per, "iops-")
       THEN IF iops = None THEN Raise("TypeError")
            ELSE Ok(dict_add(costs, slice_from(c.per, 5), fmul(c.dollars, iops)))
       ELSE Ok(dict_add(costs, c.per, c.dollars))

RECURSIVE expand_all(_, _, _, _, _)
expand_all(costs, cs, i, size, iops) ==
  IF i > Len(cs) THEN Ok(costs)
  ELSE Bind(expand(costs, cs[i], size, iops),
            LAMBDA e : IF e.ok THEN expand_all(e.val, cs, i + 1, size, iops) ELSE e)

(* the list comprehension alone, without the Cost(0, 'Mo') of an empty dict *)
costs_list_bare(costs) == [i \in 1..Len(costs) |-> Cost(costs[i].value, costs[i].key)]

(* if len(costs) == 0: return [Cost(0, 'Mo')]; return [Cost(b, a) ...] *)
costs_list(costs) ==
  IF Len(costs) = 0 THEN <<Cost(Int2F(0), "Mo")>>
  ELSE [i \in 1..Len(costs) |-> Cost(costs[i].value, costs[i].key)]

(* the lookups of search_types[i..], each followed by the walk over its    *)
(* terms: acc is what was yielded so far                                   *)
RECURSIVE fetch_each(_, _, _, _, _, _)
fetch_each(cache, service, filters_of(_), search_types, i, acc) ==
  IF i > Len(search_types) THEN [out |-> Ok(acc), lru |-> cache]
  ELSE Bind(priced(fetch_pricing(cache, service, filters_of(search_types[i]))),
            LAMBDA f :
              IF f.out.ok
              THEN fetch_each(f.lru, service, filters_of, search_types, i + 1,
                              acc \o f.out.val)
              ELSE f)

(* list(volume.unit_price(region)) *)
Volume_unit_price(self, rgn, cache) ==
  IF rgn \notin DOMAIN region_usagetype
  THEN [out |-> Raise("KeyError"), lru |-> cache]
  ELSE LET types ==
             IF self.type = "io1" THEN <<"EBS:VolumeUsage.piops", "EBS:VolumeP-IOPS.piops">>
             ELSE IF self.type = "standard" THEN <<"EBS:VolumeUsage">>
             ELSE <<"EBS:VolumeUsage." \o self.type>>
           search_types == [i \in 1..Len(types) |-> region_usagetype[rgn] \o types[i]]
           filters_of(t) == [regionCode |-> self.region, usageType |-> t]
       IN fetch_each(cache, "AmazonEC2", filters_of, search_types, 1, <<>>)

(* the loop over the volumes with every volume's rates multiplied by the   *)
(* total storage of the instance                                           *)
RECURSIVE EC2Instance_storage_loop_total(_, _, _, _)
EC2Instance_storage_loop_total(self, cache, costs, i) ==
  IF i > Len(self.volumes) THEN [out |-> Ok(costs_list(costs)), lru |-> cache]
  ELSE LET volume == self.volumes[i] IN
       Bind(Volume_unit_price(volume, region(self), cache),
            LAMBDA volume_costs :
              IF ~volume_costs.out.ok THEN volume_costs
              ELSE Bind(expand_all(costs, volume_costs.out.val, 1,
                                   total_storage(self), volume.iops),
                        LAMBDA e :
                          IF e.ok
                          THEN EC2Instance_storage_loop_total(self, volume_costs.lru,
                                                              e.val, i + 1)
                          ELSE [out |-> e, lru |-> volume_costs.lru]))

(* the loop over the volumes of EC2Instance.storage_costs, from volume i *)
RECURSIVE EC2Instance_storage_loop(_, _, _, _)
EC2Instance_storage_loop(self, cache, costs, i) ==
  IF i > Len(self.volumes) THEN [out |-> Ok(costs_list(costs)), lru |-> cache]
  ELSE LET volume == self.volumes[i] IN
       Bind(Volume_unit_price(volume, region(self), cache),
            LAMBDA volume_costs :
              IF ~volume_costs.out.ok THEN volume_costs
              ELSE Bind(expand_all(costs, volume_costs.out.val, 1, volume.size, volume.iops),
                        LAMBDA e :
                          IF e.ok
                          THEN EC2Instance_storage_loop(self, volume_costs.lru, e.val, i + 1)
                          ELSE [out |-> e, lru |-> volume_costs.lru]))

EC2Instance_storage_costs(self, cache) ==
  EC2Instance_storage_loop(self, cache, <<>>, 1)

(* the loop over the search types of DBInstance.storage_costs, from type i *)
RECURSIVE DBInstance_storage_loop(_, _, _, _, _)
DBInstance_storage_loop(self, cache, search_types, costs, i) ==
  IF i > Len(search_types) THEN [out |-> Ok(costs_list(costs)), lru |-> cache]
  ELSE Bind(priced(fetch_pricing(cache, "AmazonRDS",
                   [regionCode |-> region(self), usagetype |-> search_types[i],
                    databaseEngine |-> database_engine(self)])),
            LAMBDA f :
              IF ~f.out.ok THEN f
              ELSE Bind(expand_all(costs, f.out.val, 1, self.size, self.iops),
                        LAMBDA e :
                          IF e.ok
                          THEN DBInstance_storage_loop(self, f.lru, search_types, e.val, i + 1)
                          ELSE [out |-> e, lru |-> f.lru]))

DBInstance_storage_costs(self, cache) ==
  LET search_type_prefix == IF self.multi_az THEN "RDS:Multi-AZ-" ELSE "RDS:"
      types ==
        IF self.storage_type = "io1" THEN <<"PIOPS-Storage", "PIOPS">>
        ELSE IF self.storage_type = "gp2" THEN <<"GP2-Storage">>
        ELSE <<"StorageUsage">>
  IN IF self.storage_type \notin {"io1", "gp2", "standard"}
     THEN [out |-> Raise("Exception"), lru |-> cache]
     ELSE IF region(self) \notin DOMAIN region_usagetype
     THEN [out |-> Raise("KeyError"), lru |-> cache]
     ELSE DBInstance_storage_loop(self, cache,
            [i \in 1..Len(types) |->
               region_usagetype[region(self)] \o search_type_prefix \o types[i]],
            <<>>, 1)

(* the storage_costs property of each class, computed *)
storage_price(self, cache) ==
  CASE self.kind = "EC2Instance" -> EC2Instance_storage_costs(self, cache)
    [] self.kind = "DBInstance" -> DBInstance_storage_costs(self, cache)
    [] OTHER -> [out |-> Ok(<<Cost(Int2F(0), "Mo")>>), lru |-> cache]

-----------------------------------------------------------------------------
(* The cached properties and simple_costs.  memo holds what cached_property *)
(* stored in the instance: Ok(list) once computed; a property whose        *)
(* computation raised stores nothing.                                      *)

(* the property computed anew at every access: nothing is stored *)
instance_costs_uncached(self, m, cache) ==
  Bind(unit_price(self, cache), LAMBDA u : [out |-> u.out, memo |-> m, lru |-> u.lru])

(* self.instance_costs, with the memo m and the cache before the access *)
instance_costs(self, m, cache) ==
  IF m.instance_costs.ok THEN [out |-> m.instance_costs, memo |-> m, lru |-> cache]
  ELSE Bind(unit_price(self, cache),
            LAMBDA u :
              [out |-> u.out,
               memo |-> IF u.out.ok THEN [m EXCEPT !.instance_costs = u.out] ELSE m,
               lru |-> u.lru])

(* self.storage_costs *)
storage_costs(self, m, cache) ==
  IF m.storage_costs.ok THEN [out |-> m.storage_costs, memo |-> m, lru |-> cache]
  ELSE Bind(storage_price(self, cache),
            LAMBDA u :
              [out |-> u.out,
               memo |-> IF u.out.ok THEN [m EXCEPT !.storage_costs = u.out] ELSE m,
               lru |-> u.lru])

(* the end of simple_costs, from the two reduced costs *)
simple_costs_tail(self, instance_cost, storage_cost) ==
  Bind(per_day(instance_cost), LAMBDA i_day :
    IF ~i_day.ok THEN i_day
    ELSE Bind(per_day(storage_cost), LAMBDA s_day :
      IF ~s_day.ok THEN s_day
      ELSE Bind(__add__(i_day.val, s_day.val), LAMBDA total_cost :
        IF ~total_cost.ok THEN total_cost
        ELSE Ok([instance_cost |-> instance_cost,
                 storage_cost |-> storage_cost,
                 total_cost |-> total_cost.val,
                 actual_cost |-> IF running(self) THEN total_cost.val
                                 ELSE storage_cost]))))

simple_costs(self, m, cache) ==
  Bind(instance_costs(self, m, cache), LAMBDA ic :
    IF ~ic.out.ok THEN ic
    ELSE Bind(just_one(ic.out.val, "Hrs"), LAMBDA instance_cost :
      IF ~instance_cost.ok THEN [ic EXCEPT !.out = instance_cost]
      ELSE Bind(storage_costs(self, ic.memo, ic.lru), LAMBDA sc :
        IF ~sc.out.ok THEN sc
        ELSE Bind(just_one(sc.out.val, "Mo"), LAMBDA storage_cost :
          IF ~storage_cost.ok THEN [sc EXCEPT !.out = storage_cost]
          ELSE [sc EXCEPT !.out =
                  simple_costs_tail(self, instance_cost.val, storage_cost.val)]))))

-----------------------------------------------------------------------------
(* One resource priced against one catalog (src/price_ec2.py).  The        *)
(* resource and the catalog are drawn at the start; the operations are the *)
(* two cached properties and simple_costs.                                 *)

dim(usd, unit) == [unit |-> unit, pricePerUnit |-> [USD |-> usd]]

term(dims) == [priceDimensions |-> dims]

product(service, attributes, sheet) ==
  [service |-> service, product |-> [attributes |-> attributes], terms |-> [OnDemand |-> sheet]]

Hourly == <<term(<<dim("1.0", "Hrs")>>)>>

Tiered == <<term(<<dim("0.10", "hours"), dim("1.0", "hours")>>), term(<<dim("2", "hours")>>)>>

Yearly == <<term(<<dim("8760", "Yr")>>)>>

PerGBMonth == <<term(<<dim("0.10", "GB-Mo")>>)>>

PerGBDay == <<term(<<dim("3", "GB-Day")>>)>>

PerIOPSMonth == <<term(<<dim("0.065", "IOPS-Mo")>>)>>

Mixed == <<term(<<dim("1.0", "Hrs"), dim("8760", "Yr")>>)>>

TwoPeriods == <<term(<<dim("0.10", "GB-Mo"), dim("1.0", "Mo")>>), term(<<dim("3", "GB-Day")>>)>>

box(rgn, usagetype, sheet) ==
  product("AmazonEC2",
          [regionCode |-> rgn, usagetype |-> usagetype, operatingSystem |-> "linux",
           preInstalledSw |-> "NA"], sheet)

ebs(usagetype, sheet) ==
  product("AmazonEC2", [regionCode |-> "us-east-1", usagetype |-> usagetype], sheet)

dbi(engine, sheet) ==
  product("AmazonRDS",
          [regionCode |-> "us-east-1", instanceType |-> "db.t3.micro",
           databaseEngine |-> engine, deploymentOption |-> "Single-AZ"], sheet)

rds(usagetype, sheet) ==
  product("AmazonRDS",
          [regionCode |-> "us-east-1", usagetype |-> usagetype,
           databaseEngine |-> "PostgreSQL"], sheet)

EC2Pool ==
  << box("us-east-1", "BoxUsage:t2.micro", Hourly),
     box("us-east-1", "BoxUsage:t2.micro", Tiered),
     box("us-east-1", "BoxUsage:t2.micro", Yearly),
     box("us-east-1", "BoxUsage:t2.micro", Mixed),
     box("eu-west-1", "EU-BoxUsage:t2.micro", Hourly),
     ebs("EBS:VolumeUsage.gp2", PerGBMonth),
     ebs("EBS:VolumeUsage.gp2", PerGBDay),
     ebs("EBS:VolumeUsage.piops", PerGBMonth),
     ebs("EBS:VolumeP-IOPS.piops", PerIOPSMonth) >>

RDSPool ==
  << dbi("PostgreSQL", Hourly),
     dbi("PostgreSQL", Tiered),
     dbi("PostgreSQL", Mixed),
     dbi("MySQL", Hourly),
     rds("RDS:GP2-Storage", PerGBMonth),
     rds("RDS:GP2-Storage", PerGBDay),
     rds("RDS:GP2-Storage", TwoPeriods),
     rds("RDS:GP2-Storage", <<>>),
     rds("RDS:PIOPS-Storage", PerGBMonth),
     rds("RDS:PIOPS", PerIOPSMonth) >>

ecs(usagetype, sheet) ==
  product("AmazonECS", [regionCode |-> "us-east-1", usagetype |-> usagetype], sheet)

ECSPool ==
  << ecs("Fargate-vCPU-Hours:perCPU", <<term(<<dim("2", "hours")>>)>>),
     ecs("Fargate-GB-Hours", <<term(<<dim("0.10", "hours")>>)>>),
     ecs("Fargate-GB-Hours", Hourly),
     ecs("Fargate-ARM-vCPU-Hours:perCPU", <<term(<<dim("1.0", "hours")>>)>>) >>

node(engine, sheet) ==
  product("AmazonElastiCache",
          [regionCode |-> "us-east-1", usagetype |-> "NodeUsage:cache.t3.micro",
           cacheEngine |-> engine], sheet)

CachePool ==
  << node("redis", Hourly),
     node("redis", Tiered),
     node("memcached", Hourly) >>

(* the catalogs of at most MaxProducts products of a pool; the order of    *)
(* the products in the catalog is the order of the pool                    *)
Catalogs(pool) ==
  UNION {{[i \in 1..k |-> pool[ix[i]]] :
            ix \in {f \in [1..k -> 1..Len(pool)] : \A i \in 1..(k - 1) : f[i] <= f[i + 1]}} :
         k \in 0..MaxProducts}

Volumes ==
  {[id |-> "vol-1", region |-> "us-east-1", type |-> "gp2", size |-> Int2F(8), iops |-> None],
   [id |-> "vol-2", region |-> "us-east-1", type |-> "gp2", size |-> Int2F(200), iops |-> None],
   [id |-> "vol-3", region |-> "us-east-1", type |-> "io1", size |-> Int2F(8), iops |-> Int2F(100)]}

EC2Instances ==
  {[kind |-> "EC2Instance", id |-> "i-1", name |-> "web", type |-> "t2.micro",
    state |-> st, az |-> "us-east-1a", platform |-> "linux", volumes |-> vs] :
     st \in {"running", "stopped"}, vs \in SeqsUpTo(Volumes, MaxVolumes)}
  \cup
  {[kind |-> "EC2Instance", id |-> "i-2", name |-> "eu", type |-> "t2.micro",
    state |-> "running", az |-> "eu-west-1b", platform |-> "linux", volumes |-> <<>>]}

DBStorage ==
  {[storage_type |-> "gp2", size |-> Int2F(200), iops |-> None],
   [storage_type |-> "gp2", size |-> Int2F(8), iops |-> None],
   [storage_type |-> "io1", size |-> Int2F(8), iops |-> Int2F(100)]}

DBInstances ==
  {[kind |-> "DBInstance", id |-> "db-1", name |-> "db-1", type |-> "db.t3.micro",
    engine |-> "postgres", state |-> st, az |-> "us-east-1a", multi_az |-> FALSE,
    storage_type |-> d.storage_type, size |-> d.size, iops |-> d.iops] :
     st \in {"available", "stopped"}, d \in DBStorage}

(* FargateInstance(id, name, cpu, memory, arch, region): the type is the   *)
(* text f'{cpu}/{memory} ({arch})', the state 'running' and the az None    *)
FargateInstances ==
  {[kind |-> "FargateInstance", id |-> "task-1", name |-> "job:1", type |-> t.type,
    state |-> "running", az |-> None, _region |-> "us-east-1",
    cpu |-> t.cpu, memory |-> t.memory, arch |-> t.arch] :
     t \in {[type |-> "0.25/512 (x86_64)", cpu |-> Rat(1, 4), memory |-> Int2F(512),
              arch |-> "x86_64"],
            [type |-> "2.0/4096 (x86_64)", cpu |-> Int2F(2), memory |-> Int2F(4096),
              arch |-> "x86_64"],
            [type |-> "1.0/2048 (ARM64)", cpu |-> Int2F(1), memory |-> Int2F(2048),
              arch |-> "ARM64"]}}

(* CacheInstance(id, name, type, state, region, engine): the name is the   *)
(* id and the region is handed to Instance.__init__ as the az              *)
CacheInstances ==
  {[kind |-> "CacheInstance", id |-> "cache-1", name |-> "cache-1",
    type |-> "cache.t3.micro", state |-> "available", az |-> "us-east-1",
    _region |-> "us-east-1", engine |-> e] : e \in {"redis", "memcached"}}

Init ==
  /\ \/ inst \in EC2Instances /\ catalog \in Catalogs(EC2Pool)
     \/ inst \in DBInstances /\ catalog \in Catalogs(RDSPool)
     \/ inst \in FargateInstances /\ catalog \in Catalogs(ECSPool)
     \/ inst \in CacheInstances /\ catalog \in Catalogs(CachePool)
  /\ offers = <<>>
  /\ memo = NoMemo
  /\ lru = {}
  /\ ret = [op |-> "none"]
  /\ instances = <<>>
  /\ memos = <<>>

(* i.instance_costs *)
Get_instance_costs ==
  \E r \in {instance_costs(inst, memo, lru)} :
  /\ ret' = [op |-> "instance_costs", out |-> r.out]
  /\ memo' = r.memo
  /\ lru' = r.lru
  /\ UNCHANGED <<catalog, offers, instances, memos, inst>>

(* i.storage_costs *)
Get_storage_costs ==
  \E r \in {storage_costs(inst, memo, lru)} :
  /\ ret' = [op |-> "storage_costs", out |-> r.out]
  /\ memo' = r.memo
  /\ lru' = r.lru
  /\ UNCHANGED <<catalog, offers, instances, memos, inst>>

(* i.simple_costs() *)
Call_simple_costs ==
  \E r \in {simple_costs(inst, memo, lru)} :
  /\ ret' = [op |-> "simple_costs", out |-> r.out]
  /\ memo' = r.memo
  /\ lru' = r.lru
  /\ UNCHANGED <<catalog, offers, instances, memos, inst>>

Next ==
  \/ Get_instance_costs
  \/ Get_storage_costs
  \/ Call_simple_costs

Spec == Init /\ [][Next]_vars

-----------------------------------------------------------------------------
(* The Cost algebra on its own: one call of an operation of class Cost or  *)
(* of just_one, on arguments drawn from bounded sets.  ret records the     *)
(* call and its outcome.                                                   *)

Amounts == {Int2F(0), Int2F(1), Int2F(2), Rat(1, 10), Int2F(24), NaN}

PerArgs == {"Hrs", "hr", "hours", "Day", "Mo", "yr", "Quantity"}

CostArgs == {Cost(d, p) : d \in Amounts, p \in PerArgs}

ListArgs == {Cost(d, p) : d \in {Int2F(1), Int2F(2), NaN}, p \in {"hr", "Hrs", "day", "Mo"}}

InitCost ==
  /\ catalog = <<>>
  /\ offers = <<>>
  /\ inst = NoInst
  /\ memo = NoMemo
  /\ lru = {}
  /\ ret = [op |-> "none"]
  /\ instances = <<>>
  /\ memos = <<>>

Call_convert ==
  /\ ret.op = "none"
  /\ \E c \in CostArgs, to \in PerArgs :
       ret' = [op |-> "_convert", self |-> c, path |-> <<to>>, out |-> _convert(c, to)]
  /\ UNCHANGED <<catalog, offers, instances, memos, inst, memo, lru>>

(* a further conversion of the Cost the last conversion returned *)
Chain_convert ==
  /\ ret.op = "_convert"
  /\ ret.out.ok
  /\ Len(ret.path) < MaxPath
  /\ \E to \in PerArgs :
       ret' = [ret EXCEPT !.path = Append(@, to), !.out = _convert(ret.out.val, to)]
  /\ UNCHANGED <<catalog, offers, instances, memos, inst, memo, lru>>

Call_per_day ==
  /\ ret.op = "none"
  /\ \E c \in CostArgs : ret' = [op |-> "per_day", self |-> c, out |-> per_day(c)]
  /\ UNCHANGED <<catalog, offers, instances, memos, inst, memo, lru>>

Call_add ==
  /\ ret.op = "none"
  /\ \E a \in CostArgs, b \in CostArgs :
       ret' = [op |-> "__add__", self |-> a, other |-> b, out |-> __add__(a, b)]
  /\ UNCHANGED <<catalog, offers, instances, memos, inst, memo, lru>>

Call_mul ==
  /\ ret.op = "none"
  /\ \E a \in CostArgs, k \in Amounts :
       ret' = [op |-> "__mul__", self |-> a, other |-> k, out |-> Ok(__mul__(a, k))]
  /\ UNCHANGED <<catalog, offers, instances, memos, inst, memo, lru>>

Call_just_one ==
  /\ ret.op = "none"
  /\ \E costs \in SeqsUpTo(ListArgs, MaxLen), per \in {"Hrs", "Mo", "hr"} :
       ret' = [op |-> "just_one", costs |-> costs, per |-> per, out |-> just_one(costs, per)]
  /\ UNCHANGED <<catalog, offers, instances, memos, inst, memo, lru>>

Call_just_one_v1 ==
  /\ ret.op = "none"
  /\ \E costs \in SeqsUpTo(ListArgs, MaxLen), per \in {"Hrs", "Mo", "hr"} :
       ret' = [op |-> "just_one_v1", costs |-> costs, per |-> per, out |-> just_one_v1(costs, per)]
  /\ UNCHANGED <<catalog, offers, instances, memos, inst, memo, lru>>

NextCost ==
  \/ Call_convert
  \/ Chain_convert
  \/ Call_per_day
  \/ Call_add
  \/ Call_mul
  \/ Call_just_one
  \/ Call_just_one_v1

SpecCost == InitCost /\ [][NextCost]_vars

-----------------------------------------------------------------------------
(* Claims about the Cost algebra (checked under SpecCost).                 *)

Recognized(per) == per \in {"hr", "hrs", "hours", "day", "mo", "yr"}

(* hours in a period: Hour = 1, Day = 24, Month = 720, Year = 8760 *)
HoursIn(per) ==
  CASE per \in {"hr", "hrs", "hours"} -> 1
    [] per = "day" -> 24
    [] per = "mo" -> 720
    [] per = "yr" -> 8760

Last(s) == s[Len(s)]

(* C6: a conversion through any path of recognized periods succeeds and    *)
(* yields, in the last period of the path, the original amount times       *)
(* hours(last period) / hours(original period), with hours Hour = 1,       *)
(* Day = 24, Month = 720, Year = 8760 -- so converting through p1 to p2    *)
(* gives the amount of converting to p2 directly; and converting a Cost to *)
(* its own period returns that Cost unchanged.                             *)
C6_ConvertPathIndependent ==
  ret.op = "_convert" =>
    /\ (/\ Recognized(ret.self.per)
        /\ \A i \in 1..Len(ret.path) : Recognized(lower(ret.path[i])))
       => /\ ret.out.ok
          /\ ret.out.val.per = lower(Last(ret.path))
          /\ ret.out.val.dollars =
               fmul(ret.self.dollars,
                    Rat(HoursIn(lower(Last(ret.path))), HoursIn(ret.self.per)))
    /\ (\A i \in 1..Len(ret.path) : lower(ret.path[i]) = ret.self.per)
       => ret.out = Ok(ret.self)

(* 1/Month converted to Year and then to Day is 1/30 per Day *)
C6_Witness ==
  /\ ret.op = "_convert"
  /\ ret.self = Cost(Int2F(1), "mo")
  /\ ret.path = <<"yr", "Day">>
  /\ ret.out = Ok([dollars |-> <<1, 30>>, per |-> "day"])

(* C7: self + other succeeds exactly when the two Costs carry the same     *)
(* period (the unit token Cost stores, lower-cased); the sum is then a     *)
(* Cost of that period whose amount is the sum of the two amounts, so that *)
(* adding a zero Cost of c's period to c gives c; with different periods   *)
(* it raises.                                                              *)
C7_AddSamePeriodOnly ==
  ret.op = "__add__" =>
    /\ ret.out.ok <=> (ret.self.per = ret.other.per)
    /\ ret.out.ok =>
         /\ ret.out.val.per = ret.self.per
         /\ ret.out.val.dollars = fadd(ret.self.dollars, ret.other.dollars)
    /\ (ret.self.per = ret.other.per /\ ret.self.dollars = Int2F(0))
         => ret.out = Ok(ret.other)
    /\ (ret.self.per # ret.other.per) => ret.out = Raise("Exception")

(* Cost(0, 'Day') + Cost(24, 'day') is Cost(24.0, 'day') *)
C7_Witness ==
  /\ ret.op = "__add__"
  /\ ret.self = Cost(Int2F(0), "Day")
  /\ ret.other = Cost(Int2F(24), "day")
  /\ ret.out = Ok([dollars |-> <<24, 1>>, per |-> "day"])

RECURSIVE SumDollars(_, _)
SumDollars(costs, i) ==
  IF i = 1 THEN costs[1].dollars
  ELSE fadd(SumDollars(costs, i - 1), costs[i].dollars)

(* C8: just_one of an empty list is Cost(NaN) in the default period given  *)
(* by the caller; of a non-empty list of Costs of one period it is the     *)
(* Cost of that period whose amount is the sum of the amounts, whatever    *)
(* the default period; a list of one Cost gives that Cost.                 *)
C8_JustOneSums ==
  ret.op = "just_one" =>
    /\ ret.costs = <<>> => ret.out = Ok([dollars |-> NaN, per |-> lower(ret.per)])
    /\ (/\ ret.costs # <<>>
        /\ \A i \in 1..Len(ret.costs) : ret.costs[i].per = ret.costs[1].per)
       => /\ ret.out.ok
          /\ ret.out.val.per = ret.costs[1].per
          /\ ret.out.val.dollars = SumDollars(ret.costs, Len(ret.costs))
    /\ Len(ret.costs) = 1 => ret.out = Ok(ret.costs[1])

(* just_one([Cost(1, 'day'), Cost(2, 'day')], 'hr') is Cost(3.0, 'day') *)
C8_Witness ==
  /\ ret.op = "just_one"
  /\ ret.costs = <<Cost(Int2F(1), "day"), Cost(Int2F(2), "day")>>
  /\ ret.per = "hr"
  /\ ret.out = Ok([dollars |-> <<3, 1>>, per |-> "day"])

-----------------------------------------------------------------------------
(* Claims about one resource priced against one catalog (checked under     *)
(* Spec).                                                                  *)

(* the number a catalog price string denotes *)
PriceValue(usd) ==
  CASE usd = "1.0" -> <<1, 1>>
    [] usd = "0.10" -> <<1, 10>>
    [] usd = "2" -> <<2, 1>>
    [] usd = "3" -> <<3, 1>>
    [] usd = "8760" -> <<8760, 1>>
    [] usd = "0.065" -> <<13, 200>>

(* the unit of a catalog dimension as a Cost carries it (in lower case) *)
UnitToken(unit) ==
  CASE unit = "Hrs" -> "hrs"
    [] unit = "hours" -> "hours"
    [] unit = "Yr" -> "yr"
    [] unit = "Mo" -> "mo"
    [] unit = "GB-Mo" -> "gb-mo"
    [] unit = "GB-Day" -> "gb-day"
    [] unit = "IOPS-Mo" -> "iops-mo"

(* the filter set that prices the instance charge of a resource *)
InstanceFilters(self) ==
  IF self.kind = "EC2Instance"
  THEN [service |-> "AmazonEC2",
        attributes |->
          [regionCode |-> slice_drop_last(self.az),
           usagetype |-> (IF slice_drop_last(self.az) = "eu-west-1" THEN "EU-" ELSE "")
                           \o "BoxUsage:" \o self.type,
           operatingSystem |-> self.platform,
           preInstalledSw |-> "NA"]]
  ELSE [service |-> "AmazonRDS",
        attributes |->
          [regionCode |-> slice_drop_last(self.az),
           instanceType |-> self.type,
           databaseEngine |-> "PostgreSQL",
           deploymentOption |-> "Single-AZ"]]

(* the places in the catalog of the entries a filter set matches *)
Matching(f) ==
  {i \in 1..Len(catalog) :
     /\ catalog[i].service = f.service
     /\ \A k \in DOMAIN f.attributes :
          /\ k \in DOMAIN catalog[i].product.attributes
          /\ catalog[i].product.attributes[k] = f.attributes[k]}

(* the (term, dimension) pairs of a sequence of terms *)
PairsOf(T) ==
  UNION {{<<t, d>> : d \in 1..Len(T[t].priceDimensions)} : t \in 1..Len(T)}

(* the (term, dimension) pairs of a catalog entry, in the order of the entry *)
Pairs(entry) == PairsOf(entry.terms.OnDemand)

(* the place of the pair <<t, d>> among the pairs of the entry *)
RECURSIVE PlaceOf(_, _, _)
PlaceOf(entry, t, d) ==
  IF t = 1 THEN d
  ELSE Len(entry.terms.OnDemand[t - 1].priceDimensions) + PlaceOf(entry, t - 1, d)

(* C1: resolving the filter set of the instance charge fails with an error *)
(* whenever 0 or 2 and more catalog entries match it; when exactly one     *)
(* matches, it yields one price dimension for every (term, dimension) pair *)
(* of that entry, none dropped or merged, each with the amount of the pair *)
(* and its unit (which a Cost carries in lower case).                      *)
C1_ExactlyOneSku ==
  (ret.op = "instance_costs" /\ inst.kind \in {"EC2Instance", "DBInstance"}) =>
    LET M == Matching(InstanceFilters(inst)) IN
    /\ Cardinality(M) # 1 => ret.out = Raise("Exception")
    /\ Cardinality(M) = 1 =>
         LET entry == catalog[CHOOSE i \in M : TRUE] IN
         /\ ret.out.ok
         /\ Len(ret.out.val) = Cardinality(Pairs(entry))
         /\ \A pr \in Pairs(entry) :
              LET dm == entry.terms.OnDemand[pr[1]].priceDimensions[pr[2]] IN
              ret.out.val[PlaceOf(entry, pr[1], pr[2])] =
                [dollars |-> PriceValue(dm.pricePerUnit.USD), per |-> UnitToken(dm.unit)]

(* one entry matches among three, and its three dimensions in two terms    *)
(* are all yielded                                                         *)
C1_Witness ==
  /\ ret.op = "instance_costs"
  /\ inst.kind \in {"EC2Instance", "DBInstance"}
  /\ Len(catalog) = 3
  /\ Cardinality(Matching(InstanceFilters(inst))) = 1
  /\ ret.out = Ok(<<[dollars |-> <<1, 10>>, per |-> "hours"],
                    [dollars |-> <<1, 1>>, per |-> "hours"],
                    [dollars |-> <<2, 1>>, per |-> "hours"]>>)

(* a Cost's amount per day, by the hours in its period *)
PerDayAmount(c) == fmul(c.dollars, Rat(24, HoursIn(c.per)))

(* C2: for a Compute resource simple_costs returns as effective cost the   *)
(* total cost (instance per day + storage per day) when the state is       *)
(* 'running' and the storage cost alone in every other state; instance     *)
(* Cost(1.0, Hour) with storage Cost(24.0, Day) gives Cost(24.0, Day) when *)
(* stopped and Cost(48.0, Day) when running.                               *)
C2_ComputeEffectiveCost ==
  (ret.op = "simple_costs" /\ ret.out.ok /\ inst.kind = "EC2Instance") =>
    LET v == ret.out.val IN
    /\ v.total_cost =
         [dollars |-> fadd(PerDayAmount(v.instance_cost), PerDayAmount(v.storage_cost)),
          per |-> "day"]
    /\ inst.state = "running" => v.actual_cost = v.total_cost
    /\ inst.state # "running" => v.actual_cost = v.storage_cost
    /\ (/\ v.instance_cost = [dollars |-> <<1, 1>>, per |-> "hrs"]
        /\ v.storage_cost = [dollars |-> <<24, 1>>, per |-> "day"])
       => v.actual_cost =
            [dollars |-> IF inst.state = "running" THEN <<48, 1>> ELSE <<24, 1>>,
             per |-> "day"]

(* a stopped instance priced 1.0 per hour with storage 24.0 per day *)
C2_Witness ==
  /\ ret.op = "simple_costs"
  /\ ret.out.ok
  /\ inst.kind = "EC2Instance"
  /\ inst.state = "stopped"
  /\ ret.out.val.instance_cost = [dollars |-> <<1, 1>>, per |-> "hrs"]
  /\ ret.out.val.storage_cost = [dollars |-> <<24, 1>>, per |-> "day"]
  /\ ret.out.val.total_cost = [dollars |-> <<48, 1>>, per |-> "day"]
  /\ ret.out.val.actual_cost = [dollars |-> <<24, 1>>, per |-> "day"]

(* C3: for a Database resource that is not running (stopped), the          *)
(* effective cost simple_costs returns is the storage cost alone, without  *)
(* the instance charge.                                                    *)
C3_StoppedDatabaseStorageOnly ==
  (/\ ret.op = "simple_costs"
   /\ ret.out.ok
   /\ inst.kind = "DBInstance"
   /\ inst.state = "stopped")
  => ret.out.val.actual_cost = ret.out.val.storage_cost

(* C10: the total cost simple_costs returns is per day, and is the         *)
(* instance cost per day plus the storage cost per day, whatever the       *)
(* periods of the two.                                                     *)
C10_TotalPerDay ==
  (ret.op = "simple_costs" /\ ret.out.ok) =>
    LET v == ret.out.val IN
    /\ v.total_cost.per = "day"
    /\ Recognized(v.instance_cost.per)
    /\ Recognized(v.storage_cost.per)
    /\ v.total_cost.dollars =
         fadd(fdiv(fmul(v.instance_cost.dollars, Int2F(24)), Int2F(HoursIn(v.instance_cost.per))),
              fdiv(fmul(v.storage_cost.dollars, Int2F(24)), Int2F(HoursIn(v.storage_cost.per))))

(* 8760 per year and 20 per month are 24 + 2/3 per day *)
C10_Witness ==
  /\ ret.op = "simple_costs"
  /\ ret.out.ok
  /\ ret.out.val.instance_cost = [dollars |-> <<8760, 1>>, per |-> "yr"]
  /\ ret.out.val.storage_cost = [dollars |-> <<20, 1>>, per |-> "mo"]
  /\ ret.out.val.total_cost = [dollars |-> <<74, 3>>, per |-> "day"]

(* the unit a storage dimension is billed in once its rate is scaled *)
ResultUnit(unit) ==
  CASE unit = "GB-Mo" -> "mo"
    [] unit = "GB-Day" -> "day"
    [] unit = "IOPS-Mo" -> "mo"
    [] unit = "Mo" -> "mo"

(* what the rate of a storage dimension is multiplied by *)
ScaleOf(unit, size, iops) ==
  CASE unit \in {"GB-Mo", "GB-Day"} -> size
    [] unit = "IOPS-Mo" -> iops
    [] unit = "Mo" -> Int2F(1)

(* the usage types that price a kind of storage *)
StorageUsageTypes(service, type) ==
  IF service = "AmazonRDS"
  THEN IF type = "io1" THEN {"RDS:PIOPS-Storage", "RDS:PIOPS"} ELSE {"RDS:GP2-Storage"}
  ELSE IF type = "io1" THEN {"EBS:VolumeUsage.piops", "EBS:VolumeP-IOPS.piops"}
       ELSE {"EBS:VolumeUsage.gp2"}

(* the lookups that price the storage of a resource: one for every usage   *)
(* type of the database's storage, or of each volume of the instance       *)
StorageLookups(self) ==
  IF self.kind = "DBInstance"
  THEN {[n |-> <<0, u>>, size |-> self.size, iops |-> self.iops,
         f |-> [service |-> "AmazonRDS",
                attributes |-> [regionCode |-> "us-east-1", usagetype |-> u,
                                databaseEngine |-> "PostgreSQL"]]] :
          u \in StorageUsageTypes("AmazonRDS", self.storage_type)}
  ELSE IF self.kind # "EC2Instance" THEN {}
  ELSE UNION {{[n |-> <<v, u>>, size |-> self.volumes[v].size, iops |-> self.volumes[v].iops,
                f |-> [service |-> "AmazonEC2",
                       attributes |-> [regionCode |-> "us-east-1", usagetype |-> u]]] :
                 u \in StorageUsageTypes("AmazonEC2", self.volumes[v].type)} :
              v \in 1..Len(self.volumes)}

(* the contribution of every storage dimension of a resource: the unit it  *)
(* is billed in and its rate multiplied by the size or the IOPS            *)
Contributions(self) ==
  UNION {LET entry == catalog[CHOOSE i \in Matching(l.f) : TRUE] IN
         {LET dm == entry.terms.OnDemand[pr[1]].priceDimensions[pr[2]] IN
          [id |-> <<l.n, pr>>,
           unit |-> ResultUnit(dm.unit),
           amount |-> fmul(PriceValue(dm.pricePerUnit.USD), ScaleOf(dm.unit, l.size, l.iops))] :
            pr \in Pairs(entry)} :
         l \in StorageLookups(self)}

RECURSIVE SumAmounts(_)
SumAmounts(S) ==
  IF S = {} THEN Int2F(0)
  ELSE LET c == CHOOSE x \in S : TRUE IN fadd(c.amount, SumAmounts(S \ {c}))

(* C9: the storage costs of a resource hold exactly one Cost for every     *)
(* distinct resulting unit of its storage dimensions, and the amount of    *)
(* that Cost is the sum of the contributions of the dimensions with that   *)
(* unit, a per-GB rate multiplied by the size and a per-IOPS rate by the   *)
(* IOPS; 0.10 per GB-month with size 200 gives Cost(20.0, month).          *)
C9_StorageFoldedByUnit ==
  (/\ ret.op = "storage_costs"
   /\ ret.out.ok
   /\ \A l \in StorageLookups(inst) : Cardinality(Matching(l.f)) = 1
   /\ Contributions(inst) # {})
  => LET out == ret.out.val
         C == Contributions(inst)
     IN /\ {out[k].per : k \in 1..Len(out)} = {c.unit : c \in C}
        /\ Len(out) = Cardinality({c.unit : c \in C})
        /\ \A k \in 1..Len(out) :
             out[k].dollars = SumAmounts({c \in C : c.unit = out[k].per})

(* a database of size 200 whose storage is 0.10 per GB-month *)
C9_Witness ==
  /\ ret.op = "storage_costs"
  /\ inst.kind = "DBInstance"
  /\ inst.size = Int2F(200)
  /\ ret.out = Ok(<<[dollars |-> <<20, 1>>, per |-> "mo"]>>)
  /\ \A l \in StorageLookups(inst) : Cardinality(Matching(l.f)) = 1
  /\ Contributions(inst) = {[id |-> <<<<0, "RDS:GP2-Storage">>, <<1, 1>>>>,
                             unit |-> "mo", amount |-> <<20, 1>>]}

-----------------------------------------------------------------------------
(* The database storage lookup of src/price-ec2.py, which reads the offer  *)
(* file of a region: offers[r] is what offers.rds(r) returns, a document   *)
(* [products, terms] whose terms are found by the sku of a product.        *)

(* the values of a list *)
Range(s) == {s[i] : i \in 1..Len(s)}

(* [p['sku'] for p in offers.rds(self.region)['products'].values()         *)
(*  if p['attributes']['usagetype'] in search_types]                       *)
rds_skus(self, search_types) ==
  LET products == offers[region(self)].products
      found == SelectSeq(products, LAMBDA p : p.attributes.usagetype \in Range(search_types))
  IN [i \in 1..Len(found) |-> found[i].sku]

(* the loop over the skus of _storage_costs, from sku i *)
RECURSIVE _storage_costs_loop(_, _, _, _)
_storage_costs_loop(self, skus, costs, i) ==
  IF i > Len(skus) THEN Ok(costs_list(costs))
  ELSE LET terms == offers[region(self)].terms.OnDemand[skus[i]]
           e == expand_all(costs, yield_terms(terms, Len(terms)), 1, self.size, self.iops)
       IN IF e.ok THEN _storage_costs_loop(self, skus, e.val, i + 1) ELSE e

(* What a call of _storage_costs hands back: its outcome, and the calls of  *)
(* _storage_costs that were made for it, outermost first, each named by    *)
(* its override_region.  returned is a call that made no further call,     *)
(* nested a call whose outcome is the one of the call r it made.           *)
returned(override_region, out) == [out |-> out, calls |-> <<override_region>>]

nested(override_region, r) == [out |-> r.out, calls |-> <<override_region>> \o r.calls]

RECURSIVE _storage_costs(_, _)

(* the mutant of _storage_costs: zero skus give NaN without a retry *)
_storage_costs_no_retry(self, override_region) ==
  LET types == IF self.storage_type = "io1" THEN <<"PIOPS-Storage", "PIOPS">>
               ELSE <<"GP2-Storage">>
      search_types == [i \in 1..Len(types) |->
                         region_usagetype[region(self)] \o "RDS:" \o types[i]]
      skus == rds_skus(self, search_types)
  IN IF Len(skus) = 0 THEN returned(override_region, Ok(<<Cost(NaN, "Mo")>>))
     ELSE IF Len(skus) # Len(search_types) THEN returned(override_region, Raise("Exception"))
     ELSE returned(override_region, _storage_costs_loop(self, skus, <<>>, 1))

(* the mutant of _storage_costs: a call made with the override region      *)
(* us-east-2 that finds no sku falls back once more, to eu-west-2          *)
_storage_costs_retry_twice(self, override_region) ==
  LET rgn == IF override_region = None THEN region(self) ELSE override_region[1]
      types == IF self.storage_type = "io1" THEN <<"PIOPS-Storage", "PIOPS">>
               ELSE <<"GP2-Storage">>
      search_types == [i \in 1..Len(types) |-> region_usagetype[rgn] \o "RDS:" \o types[i]]
      skus == rds_skus(self, search_types)
  IN IF Len(skus) = 0 /\ override_region = None
     THEN IF startswith(rgn, "us-")
          THEN nested(override_region, _storage_costs(self, <<"us-east-2">>))
          ELSE IF startswith(rgn, "eu-")
               THEN nested(override_region, _storage_costs(self, <<"eu-west-2">>))
               ELSE returned(override_region, Ok(<<Cost(NaN, "Mo")>>))
     ELSE IF Len(skus) = 0 /\ override_region = <<"us-east-2">>
     THEN nested(override_region, _storage_costs(self, <<"eu-west-2">>))
     ELSE IF Len(skus) # Len(search_types) THEN returned(override_region, Raise("Exception"))
     ELSE returned(override_region, _storage_costs_loop(self, skus, <<>>, 1))

(* DBInstance._storage_costs(override_region); override_region is None or  *)
(* the one-element tuple of a region name                                  *)
_storage_costs(self, override_region) ==
  LET rgn == IF override_region = None THEN region(self) ELSE override_region[1]
      search_type_prefix == IF self.multi_az THEN "RDS:Multi-AZ-" ELSE "RDS:"
      types ==
        IF self.storage_type = "io1" THEN <<"PIOPS-Storage", "PIOPS">>
        ELSE IF self.storage_type = "gp2" THEN <<"GP2-Storage">>
        ELSE <<"StorageUsage">>
  IN IF self.storage_type \notin {"io1", "gp2", "standard"}
     THEN returned(override_region, Raise("Exception"))
     ELSE IF rgn \notin DOMAIN region_usagetype THEN returned(override_region, Raise("KeyError"))
     ELSE IF region(self) \notin DOMAIN offers THEN returned(override_region, Raise("KeyError"))
     ELSE LET search_types == [i \in 1..Len(types) |->
                                 region_usagetype[rgn] \o search_type_prefix \o types[i]]
              skus == rds_skus(self, search_types)
          IN IF Len(skus) = 0 /\ override_region = None
             THEN IF startswith(rgn, "us-")
                  THEN nested(override_region, _storage_costs(self, <<"us-east-2">>))
                  ELSE IF startswith(rgn, "eu-")
                       THEN nested(override_region, _storage_costs(self, <<"eu-west-2">>))
                       ELSE returned(override_region, Ok(<<Cost(NaN, "Mo")>>))
             ELSE IF Len(skus) # Len(search_types)
                  THEN returned(override_region, Raise("Exception"))
                  ELSE returned(override_region, _storage_costs_loop(self, skus, <<>>, 1))

(* self.storage_costs of src/price-ec2.py, a cached property; calls are    *)
(* the calls of _storage_costs it made                                     *)
storage_costs_v1(self, m) ==
  IF m.storage_costs.ok THEN [out |-> m.storage_costs, memo |-> m, calls |-> <<>>]
  ELSE Bind(_storage_costs(self, None), LAMBDA u :
         [out |-> u.out,
          memo |-> IF u.out.ok THEN [m EXCEPT !.storage_costs = u.out] ELSE m,
          calls |-> u.calls])

-----------------------------------------------------------------------------
(* One database priced against the offer files (src/price-ec2.py).         *)

(* the products an offer file may hold, each with its terms *)
OfferPool ==
  << [sku |-> "A", usagetype |-> "RDS:GP2-Storage", sheet |-> PerGBDay],
     [sku |-> "B", usagetype |-> "USE2-RDS:GP2-Storage", sheet |-> PerGBMonth],
     [sku |-> "C", usagetype |-> "USE2-RDS:GP2-Storage", sheet |-> TwoPeriods],
     [sku |-> "D", usagetype |-> "USE2-RDS:PIOPS-Storage", sheet |-> PerGBMonth],
     [sku |-> "E", usagetype |-> "USE2-RDS:PIOPS", sheet |-> PerIOPSMonth],
     [sku |-> "F", usagetype |-> "EUW2-RDS:GP2-Storage", sheet |-> PerGBMonth],
     [sku |-> "G", usagetype |-> "EU-RDS:GP2-Storage", sheet |-> PerGBDay],
     [sku |-> "H", usagetype |-> "CAN1-RDS:GP2-Storage", sheet |-> PerGBMonth] >>

(* the offer file that holds the products of the pool at the places ix *)
OfferFile(ix) ==
  [products |-> [i \in 1..Len(ix) |->
                   [sku |-> OfferPool[ix[i]].sku,
                    attributes |-> [usagetype |-> OfferPool[ix[i]].usagetype]]],
   terms |-> [OnDemand |-> [k \in {OfferPool[ix[i]].sku : i \in 1..Len(ix)} |->
                              (CHOOSE e \in Range(OfferPool) : e.sku = k).sheet]]]

(* the offer files of at most MaxProducts products, in the order of the pool *)
OfferFiles ==
  UNION {{OfferFile(ix) :
            ix \in {f \in [1..k -> 1..Len(OfferPool)] : \A i \in 1..(k - 1) : f[i] < f[i + 1]}} :
         k \in 0..MaxProducts}

OfferRegions == {"us-east-1", "us-east-2", "eu-west-1", "ca-central-1"}

DBInstancesV1 ==
  {[kind |-> "DBInstance", id |-> "db-1", name |-> "db-1", type |-> "db.t3.micro",
    engine |-> "postgres", state |-> "available", az |-> r \o "a", multi_az |-> FALSE,
    storage_type |-> d.storage_type, size |-> d.size, iops |-> d.iops] :
     r \in OfferRegions, d \in DBStorage}

(* the file of the database's region is any of the files; the files of the *)
(* other regions are all empty or all the whole pool                       *)
InitV1 ==
  /\ inst \in DBInstancesV1
  /\ \E own \in OfferFiles :
       \E others \in {OfferFile(<<>>), OfferFile([i \in 1..Len(OfferPool) |-> i])} :
         offers = [r \in OfferRegions |-> IF r = region(inst) THEN own ELSE others]
  /\ catalog = <<>>
  /\ memo = NoMemo
  /\ lru = {}
  /\ ret = [op |-> "none"]
  /\ instances = <<>>
  /\ memos = <<>>

(* i.storage_costs *)
Get_storage_costs_v1 ==
  \E r \in {storage_costs_v1(inst, memo)} :
  /\ ret' = [op |-> "storage_costs_v1", out |-> r.out, calls |-> r.calls]
  /\ memo' = r.memo
  /\ UNCHANGED <<catalog, offers, instances, memos, inst, lru>>

NextV1 == Get_storage_costs_v1

SpecV1 == InitV1 /\ [][NextV1]_vars

-----------------------------------------------------------------------------
(* Claims about the region fallback (checked under SpecV1).                *)

(* the reference region of a region's continent *)
ReferenceRegion(r) ==
  CASE r \in {"us-east-1", "us-east-2", "us-west-2"} -> "us-east-2"
    [] r \in {"eu-west-1", "eu-west-2"} -> "eu-west-2"
    [] OTHER -> "none"

(* the usage-type prefix of a region *)
UsagePrefix(r) ==
  CASE r = "us-east-1" -> ""
    [] r = "us-east-2" -> "USE2-"
    [] r = "eu-west-1" -> "EU-"
    [] r = "eu-west-2" -> "EUW2-"
    [] r = "ca-central-1" -> "CAN1-"

(* the usage types that price the database's storage in region r *)
StorageTypesIn(self, r) ==
  {UsagePrefix(r) \o u : u \in StorageUsageTypes("AmazonRDS", self.storage_type)}

(* the places, in the offer file read for the database, of the products of *)
(* the usage types U                                                       *)
EntriesOf(self, U) ==
  LET P == offers[slice_drop_last(self.az)].products IN
  {i \in 1..Len(P) : P[i].attributes.usagetype \in U}

(* the contribution of every dimension of the products at the places E *)
ContributionsV1(self, E) ==
  LET file == offers[slice_drop_last(self.az)] IN
  UNION {LET T == file.terms.OnDemand[file.products[i].sku] IN
         {LET dm == T[pr[1]].priceDimensions[pr[2]] IN
          [id |-> <<i, pr>>,
           unit |-> ResultUnit(dm.unit),
           amount |-> fmul(PriceValue(dm.pricePerUnit.USD),
                           ScaleOf(dm.unit, self.size, self.iops))] :
            pr \in PairsOf(T)} :
         i \in E}

C5_FallbackNaN ==
  (/\ ret.op = "storage_costs_v1"
   /\ ReferenceRegion(slice_drop_last(inst.az)) # "none"
   /\ EntriesOf(inst, StorageTypesIn(inst, slice_drop_last(inst.az))) = {}
   /\ EntriesOf(inst, StorageTypesIn(inst, ReferenceRegion(slice_drop_last(inst.az)))) = {})
  => ret.out = Ok(<<[dollars |-> NaN, per |-> "mo"]>>)

-----------------------------------------------------------------------------
(* Further claims about one resource priced against one catalog (checked   *)
(* under Spec).                                                            *)

(* the storage lookups of a resource, one group for the database and one   *)
(* for every volume: the filter sets of one kind of storage                *)
LookupGroups(self) ==
  {{l \in StorageLookups(self) : l.n[1] = g} : g \in {l.n[1] : l \in StorageLookups(self)}}

RECURSIVE MatchedIn(_)
MatchedIn(G) ==
  IF G = {} THEN 0
  ELSE LET l == CHOOSE x \in G : TRUE IN Cardinality(Matching(l.f)) + MatchedIn(G \ {l})

(* the number of dimensions of the entries the storage lookups match *)
RECURSIVE DimensionsIn(_)
DimensionsIn(G) ==
  IF G = {} THEN 0
  ELSE LET l == CHOOSE x \in G : TRUE IN
       Cardinality(UNION {Pairs(catalog[i]) \X {i} : i \in Matching(l.f)})
         + DimensionsIn(G \ {l})

MatchedDimensions(self) == DimensionsIn(StorageLookups(self))

(* C13: resolving the filter sets of one kind of storage (both entries of  *)
(* io1, the one entry of gp2) succeeds only if the entries matched in all  *)
(* equal the filter sets in number, and raises the cardinality error       *)
(* otherwise; on success the dimensions of every matched entry are part of *)
(* the result.                                                             *)
C13_MultiFilterCardinality ==
  ret.op = "storage_costs" =>
    LET bad == \E G \in LookupGroups(inst) : MatchedIn(G) # Cardinality(G) IN
    /\ ret.out.ok => ~bad
    /\ bad => ret.out = Raise("Exception")
    /\ (ret.out.ok /\ StorageLookups(inst) # {}) =>
         /\ Cardinality(Contributions(inst)) =
              MatchedDimensions(inst)
         /\ \A c \in Contributions(inst) :
              \E k \in 1..Len(ret.out.val) :
                /\ ret.out.val[k].per = c.unit
                /\ ret.out.val[k].dollars =
                     SumAmounts({d \in Contributions(inst) : d.unit = c.unit})

(* an io1 volume of size 8 and 100 IOPS whose two filter sets match one    *)
(* entry each: 0.10 * 8 + 0.065 * 100 per month                            *)
C13_Witness ==
  /\ ret.op = "storage_costs"
  /\ inst.kind = "EC2Instance"
  /\ Len(inst.volumes) = 1
  /\ inst.volumes[1].type = "io1"
  /\ \A G \in LookupGroups(inst) : Cardinality(G) = 2 /\ MatchedIn(G) = 2
  /\ ret.out = Ok(<<[dollars |-> <<73, 10>>, per |-> "mo"]>>)

(* the matched entry's rates, summed, for the usage type u of the task *)
RECURSIVE SumRates(_, _)
SumRates(entry, P) ==
  IF P = {} THEN Int2F(0)
  ELSE LET pr == CHOOSE x \in P : TRUE IN
       fadd(PriceValue(entry.terms.OnDemand[pr[1]].priceDimensions[pr[2]].pricePerUnit.USD),
            SumRates(entry, P \ {pr}))

FargateRate(u) ==
  LET M == Matching([service |-> "AmazonECS",
                     attributes |-> [regionCode |-> "us-east-1", usagetype |-> u]])
      entry == catalog[CHOOSE i \in M : TRUE]
  IN SumRates(entry, Pairs(entry))

(* C15: the instance cost of a Fargate task is the CPU rate times the      *)
(* number of vCPUs plus the memory rate times memory / 1024, in the hourly *)
(* period of the two rates: the two are added.                             *)
C15_FargateCpuPlusMemory ==
  (/\ ret.op = "simple_costs"
   /\ ret.out.ok
   /\ inst.kind = "FargateInstance"
   /\ inst.arch = "x86_64")
  => /\ ret.out.val.instance_cost.per \in {"hours", "hrs"}
     /\ ret.out.val.instance_cost.dollars =
          fadd(fmul(FargateRate("Fargate-vCPU-Hours:perCPU"), inst.cpu),
               fmul(FargateRate("Fargate-GB-Hours"), <<inst.memory[1], 1024 * inst.memory[2]>>))

(* 2 vCPUs at 2 per hour and 4096 MB at 0.10 per GB-hour: 4 + 0.4 per hour *)
C15_Witness ==
  /\ ret.op = "simple_costs"
  /\ ret.out.ok
  /\ inst.kind = "FargateInstance"
  /\ inst.cpu = Int2F(2)
  /\ inst.memory = Int2F(4096)
  /\ ret.out.val.instance_cost = [dollars |-> <<22, 5>>, per |-> "hours"]

(* both price lists of the resource are stored in it *)
Memoized == memo.instance_costs.ok /\ memo.storage_costs.ok

(* C16: the instance price list and the storage price list of a resource   *)
(* are computed at most once: a list once stored is never replaced, a      *)
(* simple_costs that returned has stored both, and from then on every call *)
(* leaves the lists and the lookup cache as they are (no catalog lookup)   *)
(* and simple_costs returns the same costs again.                          *)
C16_ComputedOnce ==
  /\ [](ret.op = "simple_costs" /\ ret.out.ok => Memoized)
  /\ [][/\ memo.instance_costs.ok => memo'.instance_costs = memo.instance_costs
        /\ memo.storage_costs.ok => memo'.storage_costs = memo.storage_costs
        /\ Memoized =>
             /\ lru' = lru
             /\ (ret.op = "simple_costs" /\ ret.out.ok /\ ret'.op = "simple_costs")
                  => ret'.out = ret.out
             /\ ret'.op = "instance_costs" => ret'.out = memo.instance_costs
             /\ ret'.op = "storage_costs" => ret'.out = memo.storage_costs]_vars

(* an instance with a volume whose simple_costs returned: both lists are   *)
(* stored and two lookups were made                                        *)
C16_Witness ==
  /\ ret.op = "simple_costs"
  /\ ret.out.ok
  /\ inst.kind = "EC2Instance"
  /\ Len(inst.volumes) = 1
  /\ Memoized
  /\ Cardinality(lru) = 2

(* the instance price list stored in the resource holds dimensions of      *)
(* different periods                                                       *)
InstanceUnitsDiffer ==
  /\ memo.instance_costs.ok
  /\ \E j, k \in 1..Len(memo.instance_costs.val) :
       /\ Recognized(memo.instance_costs.val[j].per)
       /\ Recognized(memo.instance_costs.val[k].per)
       /\ HoursIn(memo.instance_costs.val[j].per) # HoursIn(memo.instance_costs.val[k].per)

(* C18: when the instance price list holds more than one dimension and     *)
(* their units differ, simple_costs returns, without an error, an instance *)
(* cost whose amount is NaN.                                               *)
C18_MixedUnitsGiveNaN ==
  (ret.op = "simple_costs" /\ InstanceUnitsDiffer)
  => /\ ret.out.ok
     /\ isnan(ret.out.val.instance_cost.dollars)

(* the instance price list stored in the resource reduces to one Cost *)
InstanceUnitsAgree ==
  /\ memo.instance_costs.ok
  /\ \A j \in 1..Len(memo.instance_costs.val) :
       /\ memo.instance_costs.val[j].per = memo.instance_costs.val[1].per
       /\ Recognized(memo.instance_costs.val[j].per)

(* C19: when the storage dimensions of a resource fall under two or more   *)
(* period units, storage_costs is the list of one Cost per unit, and       *)
(* simple_costs computed from that list returns without raising.           *)
C19_SeveralStorageUnitsNoError ==
  (/\ ret.op = "simple_costs"
   /\ InstanceUnitsAgree
   /\ memo.storage_costs.ok
   /\ Len(memo.storage_costs.val) >= 2
   /\ \A k \in 1..Len(memo.storage_costs.val) : Recognized(memo.storage_costs.val[k].per))
  => ret.out.ok

(* the gb- dimensions of the volumes of an instance: the rate, the unit    *)
(* left after the prefix and the size of the volume                        *)
GbDimensions(self) ==
  UNION {LET entry == catalog[CHOOSE i \in Matching(l.f) : TRUE] IN
         {LET dm == entry.terms.OnDemand[pr[1]].priceDimensions[pr[2]] IN
          [id |-> <<l.n, pr>>, unit |-> ResultUnit(dm.unit),
           rate |-> PriceValue(dm.pricePerUnit.USD), size |-> l.size,
           gb |-> dm.unit \in {"GB-Mo", "GB-Day"}] :
            pr \in Pairs(entry)} :
         l \in StorageLookups(self)}

(* the sum of rate times size over the dimensions D *)
RECURSIVE SumRateTimesSize(_)
SumRateTimesSize(D) ==
  IF D = {} THEN Int2F(0)
  ELSE LET d == CHOOSE x \in D : TRUE IN
       fadd(fmul(d.rate, d.size), SumRateTimesSize(D \ {d}))

(* the sum of rate times total over the dimensions D *)
RECURSIVE SumRateTimes(_, _)
SumRateTimes(D, total) ==
  IF D = {} THEN Int2F(0)
  ELSE LET d == CHOOSE x \in D : TRUE IN
       fadd(fmul(d.rate, total), SumRateTimes(D \ {d}, total))

(* an instance with several volumes, all priced by gb- dimensions, whose   *)
(* storage costs were computed                                             *)
SeveralVolumesPriced ==
  /\ ret.op = "storage_costs"
  /\ ret.out.ok
  /\ inst.kind = "EC2Instance"
  /\ Len(inst.volumes) = 2
  /\ \A d \in GbDimensions(inst) : d.gb

(* C20 as the code has it: with several volumes, the gb- dimensions of     *)
(* each volume are multiplied by the size of that volume, so the storage   *)
(* cost under a unit is the sum over the volumes of rate times the         *)
(* volume's size.                                                          *)
C20_GbScaledByVolumeSize ==
  SeveralVolumesPriced =>
    \A k \in 1..Len(ret.out.val) :
      ret.out.val[k].dollars =
        SumRateTimesSize({d \in GbDimensions(inst) : d.unit = ret.out.val[k].per})

(* C20 as stated: with several volumes, each gb- dimension is multiplied   *)
(* by the total storage of the instance (the sum of the sizes of all its   *)
(* volumes).                                                               *)
C20_GbScaledByTotalStorage ==
  SeveralVolumesPriced =>
    \A k \in 1..Len(ret.out.val) :
      ret.out.val[k].dollars =
        SumRateTimes({d \in GbDimensions(inst) : d.unit = ret.out.val[k].per},
                     fadd(inst.volumes[1].size, inst.volumes[2].size))

(* volumes of 8 and 200 GB at 0.10 per GB-month: 0.8 + 20 per month *)
C20_Witness ==
  /\ SeveralVolumesPriced
  /\ inst.volumes[1].size = Int2F(8)
  /\ inst.volumes[2].size = Int2F(200)
  /\ ret.out = Ok(<<[dollars |-> <<104, 5>>, per |-> "mo"]>>)

-----------------------------------------------------------------------------
(* The report (src/price_ec2.py): build_instance_cost_table and            *)
(* print_instance_cost_table over a list of resources that share the       *)
(* lookup cache.  Each resource carries its own cached properties.         *)
(* cpu_usage is None on every resource (it is only filled from CloudWatch, *)
(* which is not modelled), so include_cpu is false, cost_index is -1 and   *)
(* the rows have no cpu columns.  A row is the tuple of the code; x[0] of  *)
(* the code is row[1] here and x[-1] is row[Len(row)].                     *)

(* -x, x < y and x == y of floats *)
fneg(x) == IF isnan(x) THEN NaN ELSE <<-x[1], x[2]>>

flt(x, y) == ~isnan(x) /\ ~isnan(y) /\ x[1] * y[2] < y[1] * x[2]

feq(x, y) == ~isnan(x) /\ ~isnan(y) /\ x = y

(* the characters of the names, in code point order *)
CodePoints == "-0123456789:?ABCDEFGHIJKLMNOPQRSTUVWXYZabcdefghijklmnopqrstuvwxyz"

RECURSIVE ord_from(_, _)
ord_from(c, i) ==
  IF i > Len(CodePoints) THEN 0
  ELSE IF SubSeq(CodePoints, i, i) = c THEN i ELSE ord_from(c, i + 1)

ord(c) == ord_from(c, 1)

(* s < t of two strings *)
RECURSIVE str_lt(_, _)
str_lt(s, t) ==
  IF t = "" THEN FALSE
  ELSE IF s = "" THEN TRUE
  ELSE IF SubSeq(s, 1, 1) = SubSeq(t, 1, 1)
       THEN str_lt(SubSeq(s, 2, Len(s)), SubSeq(t, 2, Len(t)))
       ELSE ord(SubSeq(s, 1, 1)) < ord(SubSeq(t, 1, 1))

(* a < b of two key tuples (float, str): the first items that are not ==   *)
(* decide                                                                  *)
tuple_lt(a, b) ==
  IF feq(a[1], b[1]) THEN str_lt(a[2], b[2]) ELSE flt(a[1], b[1])

(* key=lambda x: (-x[cost_index], x[0]) with cost_index = -1 *)
sort_key(x) == <<fneg(x[Len(x)]), x[1]>>

row_lt(x, y) == tuple_lt(sort_key(x), sort_key(y))

(* list.sort of a list shorter than 64: the run at the start of the list   *)
(* is found (reversed when strictly descending), then every later item is  *)
(* put in its place by binary insertion                                    *)
RECURSIVE count_run(_, _, _)
count_run(a, n, descending) ==
  IF n >= Len(a) THEN n
  ELSE IF row_lt(a[n + 1], a[n]) = descending THEN count_run(a, n + 1, descending)
       ELSE n

RECURSIVE reversed(_)
reversed(a) == IF a = <<>> THEN <<>> ELSE Append(reversed(Tail(a)), Head(a))

RECURSIVE bisect(_, _, _, _)
bisect(a, pivot, l, r) ==
  IF l >= r THEN l
  ELSE Bind(l + ((r - l) \div 2), LAMBDA p :
         IF row_lt(pivot, a[p + 1]) THEN bisect(a, pivot, l, p)
         ELSE bisect(a, pivot, p + 1, r))

RECURSIVE binarysort(_, _)
binarysort(a, start) ==
  IF start >= Len(a) THEN a
  ELSE Bind(bisect(a, a[start + 1], 0, start), LAMBDA l :
         binarysort(SubSeq(a, 1, l) \o <<a[start + 1]>> \o SubSeq(a, l + 1, start)
                      \o SubSeq(a, start + 2, Len(a)),
                    start + 1))

list_sort(a) ==
  IF Len(a) < 2 THEN a
  ELSE Bind(row_lt(a[2], a[1]), LAMBDA descending :
         Bind(count_run(a, 2, descending), LAMBDA n :
           binarysort(IF descending
                      THEN reversed(SubSeq(a, 1, n)) \o SubSeq(a, n + 1, Len(a))
                      ELSE a,
                      n)))

(* sum(r[j] for r in table), from row i on *)
RECURSIVE sum_column(_, _, _, _)
sum_column(table, j, i, acc) ==
  IF i > Len(table) THEN acc
  ELSE sum_column(table, j, i + 1, fadd(acc, table[i][j]))

headers(per) ==
  <<"name", "id", "az", "type", "type $/" \o per, "disk GB", "disk $/" \o per,
    "running $/" \o per, "state", "actual $/" \o per>>

(* dollars(stat) of build_instance_cost_table *)
dollars(stat, per) ==
  Bind(_convert(stat, per), LAMBDA c : IF c.ok THEN Ok(c.val.dollars) ELSE c)

(* the row tuple, from the four costs of simple_costs *)
row_of(i, costs, per) ==
  Bind(dollars(costs.instance_cost, per), LAMBDA d4 :
    IF ~d4.ok THEN d4
    ELSE Bind(dollars(costs.storage_cost, per), LAMBDA d6 :
      IF ~d6.ok THEN d6
      ELSE Bind(dollars(costs.total_cost, per), LAMBDA d7 :
        IF ~d7.ok THEN d7
        ELSE Bind(dollars(costs.actual_cost, per), LAMBDA d9 :
          IF ~d9.ok THEN d9
          ELSE Ok(<<i.name, i.id, i.az, i.type, d4.val, total_storage(i), d6.val,
                    d7.val, i.state, d9.val>>)))))

(* build_row(i); m is the resource's cached properties *)
build_row(i, m, cache, per) ==
  Bind(simple_costs(i, m, cache), LAMBDA sc :
    IF ~sc.out.ok THEN sc
    ELSE [sc EXCEPT !.out = row_of(i, sc.out.val, per)])

(* [build_row(i) for i in instances], from resource k on; the first        *)
(* exception ends the comprehension                                        *)
RECURSIVE build_rows(_, _, _, _, _, _)
build_rows(insts, ms, cache, per, k, rows) ==
  IF k > Len(insts) THEN [out |-> Ok(rows), memos |-> ms, lru |-> cache]
  ELSE Bind(build_row(insts[k], ms[k], cache, per), LAMBDA r :
         IF ~r.out.ok
         THEN [out |-> r.out, memos |-> [ms EXCEPT ![k] = r.memo], lru |-> r.lru]
         ELSE build_rows(insts, [ms EXCEPT ![k] = r.memo], r.lru, per, k + 1,
                         Append(rows, r.out.val)))

build_instance_cost_table(insts, ms, cache, per) ==
  Bind(build_rows(insts, ms, cache, per, 1, <<>>), LAMBDA b :
    IF ~b.out.ok THEN b
    ELSE [b EXCEPT !.out = Ok([headers |-> headers(per), table |-> b.out.val])])

(* the total row is a row of zeros *)
total_row_zero(table) ==
  <<"Total", "", "", "", Int2F(0), Int2F(0), Int2F(0), Int2F(0), "", Int2F(0)>>

total_row(table) ==
  <<"Total", "", "", "", sum_column(table, 5, 1, Int2F(0)),
    sum_column(table, 6, 1, Int2F(0)), sum_column(table, 7, 1, Int2F(0)),
    sum_column(table, 8, 1, Int2F(0)), "", sum_column(table, 10, 1, Int2F(0))>>

(* what print_instance_cost_table hands to tabulate *)
print_instance_cost_table(insts, ms, cache, total, per) ==
  Bind(build_instance_cost_table(insts, ms, cache, per), LAMBDA b :
    IF ~b.out.ok THEN b
    ELSE Bind(list_sort(b.out.val.table), LAMBDA table :
           [b EXCEPT !.out =
              Ok([headers |-> b.out.val.headers,
                  table |-> IF total THEN Append(table, total_row(table))
                            ELSE table])]))

-----------------------------------------------------------------------------
(* A fleet priced against one catalog (src/price_ec2.py): the resources    *)
(* main() gathers, the lookup cache they share, and the cached properties  *)
(* of each.  The operations are simple_costs of one resource and the       *)
(* report over all of them.                                                *)

MaxInstances == 2

FleetPool ==
  << box("us-east-1", "BoxUsage:t2.micro", Hourly),
     box("us-east-1", "BoxUsage:t2.nano", <<>>),
     ebs("EBS:VolumeUsage.gp2", PerGBMonth),
     dbi("PostgreSQL", Hourly),
     rds("RDS:GP2-Storage", PerGBMonth) >>

(* the products of the pool at the places S, in the order of the pool *)
products_at(pool, S) ==
  LET places == SelectSeq([i \in 1..Len(pool) |-> i], LAMBDA i : i \in S)
  IN [k \in 1..Len(places) |-> pool[places[k]]]

FleetCatalogs == {products_at(FleetPool, S) : S \in SUBSET (1..Len(FleetPool))}

ec2(id, name, type, volumes) ==
  [kind |-> "EC2Instance", id |-> id, name |-> name, type |-> type, state |-> "running",
   az |-> "us-east-1a", platform |-> "linux", volumes |-> volumes]

gp2(id, size) ==
  [id |-> id, region |-> "us-east-1", type |-> "gp2", size |-> Int2F(size), iops |-> None]

(* two resources of equal cost and different names, two of equal cost and  *)
(* equal name, one of a type that may have no on-demand price, and one     *)
(* database                                                                *)
FleetInstances ==
  {ec2("i-1", "a", "t2.micro", <<gp2("vol-1", 8)>>),
   ec2("i-2", "b", "t2.micro", <<gp2("vol-2", 8)>>),
   ec2("i-3", "a", "t2.micro", <<gp2("vol-3", 8)>>),
   ec2("i-4", "n", "t2.nano", <<gp2("vol-4", 8)>>),
   [kind |-> "DBInstance", id |-> "db-1", name |-> "db-1", type |-> "db.t3.micro",
    engine |-> "postgres", state |-> "available", az |-> "us-east-1a", multi_az |-> FALSE,
    storage_type |-> "gp2", size |-> Int2F(200), iops |-> None]}

(* the lists of at most MaxInstances different resources *)
Fleets ==
  {f \in SeqsUpTo(FleetInstances, MaxInstances) :
     \A i, j \in 1..Len(f) : i # j => f[i].id # f[j].id}

InitReport ==
  /\ instances \in Fleets
  /\ catalog \in FleetCatalogs
  /\ memos = [k \in 1..Len(instances) |-> NoMemo]
  /\ lru = {}
  /\ offers = <<>>
  /\ inst = NoInst
  /\ memo = NoMemo
  /\ ret = [op |-> "none"]

(* instances[k].simple_costs() *)
Call_simple_costs_of ==
  \E k \in 1..Len(instances) :
    \E r \in {simple_costs(instances[k], memos[k], lru)} :
      /\ memos' = [memos EXCEPT ![k] = r.memo]
      /\ lru' = r.lru
      /\ ret' = [op |-> "simple_costs", k |-> k, out |-> r.out]
      /\ UNCHANGED <<catalog, offers, instances, inst, memo>>

(* print_instance_cost_table(instances, total, per=args.cost_per) *)
Call_print_instance_cost_table ==
  \E total \in BOOLEAN, per \in {"day", "mo"} :
    \E r \in {print_instance_cost_table(instances, memos, lru, total, per)} :
      /\ memos' = r.memos
      /\ lru' = r.lru
      /\ ret' = [op |-> "print_instance_cost_table", total |-> total, per |-> per,
                 out |-> r.out]
      /\ UNCHANGED <<catalog, offers, instances, inst, memo>>

NextReport == Call_simple_costs_of \/ Call_print_instance_cost_table

SpecReport == InitReport /\ [][NextReport]_vars

-----------------------------------------------------------------------------
(* Claims about the report and the fleet (checked under SpecReport).       *)

Printed == ret.op = "print_instance_cost_table" /\ ret.out.ok

(* the rows of the printed table that stand for resources *)
ResourceRows ==
  IF ret.total THEN SubSeq(ret.out.val.table, 1, Len(ret.out.val.table) - 1)
  ELSE ret.out.val.table

(* the row of one resource, built with nothing cached *)
RowAlone(i, per) == build_row(i, NoMemo, {}, per).out

(* the lists that hold the resources of the fleet in another order *)
Reorderings ==
  {g \in Fleets : Len(g) = Len(instances)
                  /\ {g[k] : k \in 1..Len(g)} = {instances[k] : k \in 1..Len(instances)}}

(* the table printed for the list g, with nothing cached *)
TableOf(g, total, per) ==
  print_instance_cost_table(g, [k \in 1..Len(g) |-> NoMemo], {}, total, per).out

(* C11: the rows of the report are one row per resource, and they come in  *)
(* the same order whatever the order of the resources in the input,        *)
(* resources of NaN effective cost included.                               *)
C11_DeterministicTotalOrder ==
  Printed =>
    /\ Len(ResourceRows) = Len(instances)
    /\ \A k \in 1..Len(instances) :
         \E n \in 1..Len(ResourceRows) : Ok(ResourceRows[n]) = RowAlone(instances[k], ret.per)
    /\ \A g \in Reorderings : TableOf(g, ret.total, ret.per) = ret.out

(* the sum of column j over the first n rows *)
RECURSIVE ColumnTotal(_, _, _)
ColumnTotal(rows, j, n) ==
  IF n = 0 THEN Int2F(0) ELSE fadd(ColumnTotal(rows, j, n - 1), rows[n][j])

(* the numeric columns: instance cost, storage size, storage cost, total   *)
(* cost, effective cost                                                    *)
NumericColumns == {5, 6, 7, 8, 10}

(* C12: a requested Total row comes after one row per resource; each of    *)
(* its numeric columns is the sum of the column over the resource rows,    *)
(* and is NaN as soon as one resource row holds NaN in the column.  No     *)
(* Total row is printed when it is not requested.                          *)
C12_TotalRowSums ==
  Printed =>
    LET table == ret.out.val.table
        n == Len(instances)
    IN IF ret.total
       THEN /\ Len(table) = n + 1
            /\ \A k \in 1..n : table[k][2] \in {instances[m].id : m \in 1..n}
            /\ table[n + 1][1] = "Total"
            /\ \A j \in NumericColumns :
                 /\ table[n + 1][j] = ColumnTotal(table, j, n)
                 /\ (\E k \in 1..n : isnan(table[k][j])) => isnan(table[n + 1][j])
       ELSE /\ Len(table) = n
            /\ \A k \in 1..n : table[k][1] # "Total"

(* a Total row over two resources, one with a NaN instance cost and one    *)
(* with an instance cost that is a number                                  *)
C12_Witness ==
  /\ Printed
  /\ ret.total
  /\ Len(instances) = 2
  /\ \E k, m \in 1..2 : /\ isnan(ret.out.val.table[k][5])
                        /\ ~isnan(ret.out.val.table[m][5])
  /\ isnan(ret.out.val.table[3][5])
  /\ ~isnan(ret.out.val.table[3][7])
  /\ ret.out.val.table[3][7] # Int2F(0)

(* C14: the report over several resources is produced whenever it is       *)
(* asked for: every resource whose instance pricing resolves has its row,  *)
(* and the storage cell of a resource whose storage pricing fails is NaN.  *)
C14_StorageFailureGraceful ==
  ret.op = "print_instance_cost_table" /\ Len(instances) >= 2 =>
    /\ ret.out.ok
    /\ \A k \in 1..Len(instances) :
         unit_price(instances[k], {}).out.ok =>
           \E n \in 1..Len(ResourceRows) :
             /\ ResourceRows[n][2] = instances[k].id
             /\ ~storage_price(instances[k], {}).out.ok => isnan(ResourceRows[n][7])

(* C17: the costs simple_costs returns for a resource of the fleet, and    *)
(* the row the report prints for it, are the ones computed for it alone    *)
(* with nothing cached, whatever was computed for the other resources      *)
(* before.                                                                 *)
C17_IndependentOfOthers ==
  /\ ret.op = "simple_costs" =>
       ret.out = simple_costs(instances[ret.k], NoMemo, {}).out
  /\ Printed =>
       \A k \in 1..Len(instances) :
         \E n \in 1..Len(ResourceRows) : Ok(ResourceRows[n]) = RowAlone(instances[k], ret.per)
  /\ ret.op = "print_instance_cost_table" /\ ~ret.out.ok =>
       \E k \in 1..Len(instances) : RowAlone(instances[k], ret.per) = ret.out

(* a resource priced after another resource of the same service and of a   *)
(* different type, whose lookups are in the shared cache                   *)
C17_Witness ==
  /\ ret.op = "simple_costs"
  /\ ret.out.ok
  /\ \E j \in 1..Len(instances) :
       /\ j # ret.k
       /\ instances[j].kind = instances[ret.k].kind
       /\ instances[j].type # instances[ret.k].type
       /\ memos[j].instance_costs.ok
       /\ memos[j].storage_costs.ok
  /\ Cardinality(lru) >= 3

-----------------------------------------------------------------------------
(* Claims about resources without storage groups (checked under Spec).     *)

ZeroPerMonth == <<[dollars |-> Int2F(0), per |-> "mo"]>>

(* every storage lookup of the resource finds its entry and no entry       *)
(* found holds a price dimension                                           *)
NoStorageGroup(self) ==
  /\ \A l \in StorageLookups(self) : Cardinality(Matching(l.f)) = 1
  /\ Contributions(self) = {}

(* C21: the storage costs of a cache or Fargate resource are always the    *)
(* single Cost(0, 'Mo') and its total_storage is 0; the storage costs of   *)
(* an EC2 or database resource are never an empty list, and they are the   *)
(* single Cost(0, 'Mo') when no price dimension contributes to them.       *)
C21_ZeroCostWithoutStorage ==
  ret.op = "storage_costs" =>
    /\ inst.kind \in {"CacheInstance", "FargateInstance"} =>
         /\ ret.out = Ok(ZeroPerMonth)
         /\ total_storage(inst) = Int2F(0)
    /\ inst.kind \in {"EC2Instance", "DBInstance"} /\ ret.out.ok =>
         /\ Len(ret.out.val) >= 1
         /\ NoStorageGroup(inst) => ret.out.val = ZeroPerMonth

(* an EC2 instance without volumes whose storage costs were computed *)
C21_Witness ==
  /\ ret.op = "storage_costs"
  /\ inst.kind = "EC2Instance"
  /\ inst.volumes = <<>>
  /\ memo.storage_costs = Ok(ZeroPerMonth)
  /\ ret.out = Ok(ZeroPerMonth)

-----------------------------------------------------------------------------
(* A claim about the depth of the region fallback (checked under SpecV1).  *)

(* C22: a database storage lookup ends after at most two calls of          *)
(* _storage_costs: only the call made without an override region makes a   *)
(* further call, that call names the reference region, and the lookup      *)
(* ends in a list of at least one Cost or in an exception.                 *)
C22_FallbackAtMostOnce ==
  ret.op = "storage_costs_v1" =>
    /\ Len(ret.calls) <= 2
    /\ \A n \in 1..Len(ret.calls) : (ret.calls[n] = None) <=> (n = 1)
    /\ Len(ret.calls) = 2 =>
         ret.calls[2] = <<ReferenceRegion(slice_drop_last(inst.az))>>
    /\ IF ret.out.ok THEN Len(ret.out.val) >= 1
       ELSE ret.out.exc \in {"Exception", "KeyError"}

(* a us-east-1 database whose storage no entry prices, neither under its   *)
(* own region nor under us-east-2: the second call finds nothing and       *)
(* raises, without a third call                                            *)
C22_Witness ==
  /\ ret.op = "storage_costs_v1"
  /\ inst.az = "us-east-1a"
  /\ EntriesOf(inst, StorageTypesIn(inst, "us-east-1")) = {}
  /\ EntriesOf(inst, StorageTypesIn(inst, "us-east-2")) = {}
  /\ ret.calls = <<None, <<"us-east-2">> >>
  /\ ret.out = Raise("Exception")

====
